---- MODULE Spec2Model ----
(***************************************************************************)
(* Model of the synchronisation-and-extrapolation engine of app.py:        *)
(* run_sync_once (the writer of the process-wide `state` dict),            *)
(* compute_remaining_now / seconds_per_person / api_status (the readers)   *)
(* and the client-side loadStatus / computeNowInt of the served page.      *)
(*                                                                         *)
(* Four behaviours are specified over the same variables.  Spec: syncs,    *)
(* reads and clock advances in any order, each handler in one step.        *)
(* SpecConc: one sync and one read interleaved statement by statement.     *)
(* SpecCron (SpecCronFair with fair scheduling): the process from its      *)
(* start, the attempt of start_background_sync, then cron_sync_loop and    *)
(* the request handlers.  SpecSeries: rolling_avg and run_sync_once        *)
(* applied to each of a family of `killed` columns.                        *)
(*                                                                         *)
(* Numbers.  Times are seconds counted from 2024-01-10T00:00:00Z and are   *)
(* exact rationals [n, d] (n/d seconds, d > 0); an average is the rational *)
(* [n |-> sum, d |-> len]; a value produced by round(x, 2) is kept as an   *)
(* integer number of hundredths.  The code works in IEEE doubles: the      *)
(* model is its exact-arithmetic reading.  The two agree except for a read *)
(* at an instant that lies exactly on a decrement boundary of an anchor    *)
(* that is itself a rounded double (last_sync_epoch = now - residual with  *)
(* extra > 0), where the double quotient may fall just below the integer.  *)
(***************************************************************************)
EXTENDS Integers, Sequences, FiniteSets, TLC

\* ------------------------------------------------------------------ config
P0 == 2000000
SECONDS_PER_DAY == 86400
ROLLING_N == 14
SYNC_INTERVAL_HOURS == 24
FETCH_TIMEOUT == 30

\* ------------------------------------------------------------------ bounds
MaxTicks == 2

\* ------------------------------------------------------- optional values
None == <<>>
Some(v) == <<v>>
IsNone(o) == o = <<>>
Val(o) == o[1]

\* ------------------------------------------------------ exact arithmetic
Abs(x) == IF x < 0 THEN -x ELSE x
Max(a, b) == IF a >= b THEN a ELSE b

RECURSIVE GCD(_, _)
GCD(a, b) == IF b = 0 THEN Abs(a) ELSE GCD(b, a % Abs(b))

\* floor(p / q) of two rationals, q > 0
FloorQuot(p, q) == (p.n * q.d) \div (p.d * q.n)

Rat(n, d) == [n |-> n, d |-> d]
Norm(q) == LET g == GCD(q.n, q.d) IN [n |-> q.n \div g, d |-> q.d \div g]
OfInt(i) == Rat(i, 1)
RSub(p, q) == Rat(p.n * q.d - q.n * p.d, p.d * q.d)
RLeq(p, q) == p.n * q.d <= q.n * p.d
RLt(p, q) == p.n * q.d < q.n * p.d
RPos(q) == q.n > 0

\* round(x, 2) of Python 3 (ties to even), in hundredths
Round2(q) ==
    LET x == 100 * q.n
        f == x \div q.d
        r == x - f * q.d
    IN  IF 2 * r < q.d THEN f
        ELSE IF 2 * r > q.d THEN f + 1
        ELSE IF f % 2 = 0 THEN f ELSE f + 1

\* int(x) of a rational: truncation towards zero
Trunc(q) == IF q.n >= 0 THEN q.n \div q.d ELSE -((-q.n) \div q.d)

\* -------------------------------------------------------- series reducer
\* A raw CSV cell: [k, v] with k one of "none" (column missing), "empty",
\* "int" (v the integer), "float" (v in tenths), "junk" (not a number).
Cell(k, v) == [k |-> k, v |-> v]
NoCell == Cell("none", 0)
IntCell(i) == Cell("int", i)
\* A date cell: k = "date" (v the day number, 0 = 2024-01-10), "junk", "none".
DateCell(d) == Cell("date", d)
Row(d, k, kc) == [date |-> d, killed |-> k, killed_cum |-> kc]

safe_int(c) ==
    IF c.k = "none" \/ c.k = "empty" THEN None
    ELSE IF c.k = "int" THEN Some(c.v)
    ELSE IF c.k = "float" THEN Some(Trunc(Rat(c.v, 10)))
    ELSE None

RECURSIVE Sum(_)
Sum(s) == IF s = <<>> THEN 0 ELSE Head(s) + Sum(Tail(s))

Present(vals) == SelectSeq(vals, LAMBDA v : ~IsNone(v))
Unwrap(vals) == [i \in 1..Len(vals) |-> Val(vals[i])]

\* Python slice s[a:b] for a, b <= 0 counted from the end (b = 0: to the end)
SliceFromEnd(s, a, b) ==
    LET L == Len(s)
        lo == Max(L + a, 0) + 1
        hi == IF b = 0 THEN L ELSE Max(L + b, 0)
    IN  SubSeq(s, lo, hi)

Mean(tail) == IF tail = <<>> THEN Rat(0, 1) ELSE Rat(Sum(tail), Len(tail))

\* rolling_avg dividing by the window size n whatever the number of values
rolling_avg_DividesByN(vals, n) ==
    LET tail == SliceFromEnd(Unwrap(Present(vals)), -n, 0)
    IN  IF tail = << >> THEN Rat(0, 1) ELSE Rat(Sum(tail), n)

rolling_avg(vals, n) == Mean(SliceFromEnd(Unwrap(Present(vals)), -n, 0))

parse_rows(rows) ==
    [dates      |-> [i \in 1..Len(rows) |-> rows[i].date],
     daily      |-> [i \in 1..Len(rows) |-> safe_int(rows[i].killed)],
     cumulative |-> [i \in 1..Len(rows) |-> safe_int(rows[i].killed_cum)]]

\* parse_date_utc: None when strptime raises, else the epoch of 00:00 UTC of
\* the day after the report date
parse_date_utc(c) ==
    IF c.k = "date" THEN Some((c.v + 1) * SECONDS_PER_DAY) ELSE None

\* ------------------------------------------------------------ the store
NoState ==
    [as_of_utc |-> None, cumulative_deaths |-> None,
     remaining_at_sync |-> None, r14_daily |-> None, r14_prev |-> None,
     trend |-> "flat", last_sync_epoch |-> None,
     last_report_cutoff_epoch |-> None]

\* ------------------------------------------------------------ sync engine
Trend(R14, R14_prev) ==
    IF RLt(R14_prev, R14) THEN "up"
    ELSE IF RLt(R14, R14_prev) THEN "down" ELSE "flat"

\* Align with the anchor left at the sync time
Align_NoResidual(R14, cutoff_epoch, now_epoch) ==
    IF RPos(R14)
    THEN LET elapsed  == Max(0, now_epoch - cutoff_epoch)
             secs_per == Norm(Rat(SECONDS_PER_DAY * R14.d, R14.n))
         IN  [extra |-> FloorQuot(OfInt(elapsed), secs_per),
              anchor |-> OfInt(now_epoch)]
    ELSE [extra |-> 0, anchor |-> OfInt(now_epoch)]

\* Align with the frozen counter anchored at the cutoff
Align_ZeroRateAtCutoff(R14, cutoff_epoch, now_epoch) ==
    IF RPos(R14)
    THEN LET elapsed  == Max(0, now_epoch - cutoff_epoch)
             secs_per == Norm(Rat(SECONDS_PER_DAY * R14.d, R14.n))
             extra    == FloorQuot(OfInt(elapsed), secs_per)
             residual == RSub(OfInt(elapsed),
                              Rat(extra * secs_per.n, secs_per.d))
         IN  [extra |-> extra,
              anchor |-> Norm(RSub(OfInt(now_epoch), residual))]
    ELSE [extra |-> 0, anchor |-> OfInt(cutoff_epoch)]

\* Align with the elapsed seconds counted as decrements
Align_ExtraInSeconds(R14, cutoff_epoch, now_epoch) ==
    IF RPos(R14)
    THEN LET elapsed  == Max(0, now_epoch - cutoff_epoch)
         IN  [extra |-> elapsed, anchor |-> OfInt(now_epoch)]
    ELSE [extra |-> 0, anchor |-> OfInt(now_epoch)]

\* Align with the elapsed time left negative when the cutoff is ahead of now
Align_NoClamp(R14, cutoff_epoch, now_epoch) ==
    IF RPos(R14)
    THEN LET elapsed  == now_epoch - cutoff_epoch
             secs_per == Norm(Rat(SECONDS_PER_DAY * R14.d, R14.n))
             extra    == FloorQuot(OfInt(elapsed), secs_per)
             residual == RSub(OfInt(elapsed),
                              Rat(extra * secs_per.n, secs_per.d))
         IN  [extra |-> extra,
              anchor |-> Norm(RSub(OfInt(now_epoch), residual))]
    ELSE [extra |-> 0, anchor |-> OfInt(now_epoch)]

\* lines 101-110: extra and the aligned anchor for average R14, cutoff and now
Align(R14, cutoff_epoch, now_epoch) ==
    IF RPos(R14)
    THEN LET elapsed  == Max(0, now_epoch - cutoff_epoch)
             secs_per == Norm(Rat(SECONDS_PER_DAY * R14.d, R14.n))
             extra    == FloorQuot(OfInt(elapsed), secs_per)
             residual == RSub(OfInt(elapsed),
                              Rat(extra * secs_per.n, secs_per.d))
         IN  [extra |-> extra,
              anchor |-> Norm(RSub(OfInt(now_epoch), residual))]
    ELSE [extra |-> 0, anchor |-> OfInt(now_epoch)]

\* The body of the try block of run_sync_once on the fetched rows (None when
\* fetch_csv_rows raised): [ok |-> FALSE] when an exception is raised, else
\* the eight values assigned to `state`.
SyncResult(fetched, now_epoch) ==
    IF IsNone(fetched) THEN [ok |-> FALSE]
    ELSE
    LET p == parse_rows(Val(fetched))
        n == Len(p.cumulative)
    IN  IF n = 0 \/ IsNone(p.cumulative[n]) THEN [ok |-> FALSE]
        ELSE IF IsNone(parse_date_utc(p.dates[n])) THEN [ok |-> FALSE]
        ELSE
        LET cutoff_epoch == Val(parse_date_utc(p.dates[n]))
            D_cum    == Val(p.cumulative[n])
            R14      == rolling_avg(p.daily, ROLLING_N)
            R14_prev == Mean(SliceFromEnd(Unwrap(Present(p.daily)),
                                          -2 * ROLLING_N, -ROLLING_N))
            al       == Align(R14, cutoff_epoch, now_epoch)
            remaining_now == Max(0, P0 - (D_cum + al.extra))
        IN  [ok |-> TRUE,
             extra |-> al.extra,
             R14 |-> R14,
             new |-> [as_of_utc |-> Some(now_epoch),
                      cumulative_deaths |-> Some(D_cum),
                      remaining_at_sync |-> Some(remaining_now),
                      r14_daily |-> Some(Round2(R14)),
                      r14_prev |-> Some(Round2(R14_prev)),
                      trend |-> Trend(R14, R14_prev),
                      last_sync_epoch |-> Some(al.anchor),
                      last_report_cutoff_epoch |-> Some(cutoff_epoch)]]

\* ------------------------------------------------------------ extrapolator
\* seconds_per_person on a store st: None, or the interval 86400 / r14_daily
seconds_per_person(st) ==
    LET r14 == IF IsNone(st.r14_daily) THEN 0 ELSE Val(st.r14_daily)
    IN  IF r14 > 0 THEN Some(Norm(Rat(100 * SECONDS_PER_DAY, r14))) ELSE None

\* Extrapolate with the drops added back
Extrapolate_AddsDrops(baseline, anchor, s_per, t) ==
    LET drops == FloorQuot(RSub(t, anchor), s_per)
    IN  Max(0, baseline + drops)

\* Extrapolate counting the interval in progress as elapsed
Extrapolate_CountsPartial(baseline, anchor, s_per, t) ==
    LET drops == FloorQuot(RSub(t, anchor), s_per) + 1
    IN  Max(0, baseline - drops)

\* lines 146-147: max(0, baseline - floor((t - anchor) / s_per))
Extrapolate(baseline, anchor, s_per, t) ==
    LET drops == FloorQuot(RSub(t, anchor), s_per)
    IN  Max(0, baseline - drops)

compute_remaining_now(st, t) ==
    IF IsNone(st.remaining_at_sync) \/ IsNone(st.last_sync_epoch) THEN None
    ELSE LET s_per == seconds_per_person(st)
         IN  IF IsNone(s_per) THEN Some(Val(st.remaining_at_sync))
             ELSE Some(Extrapolate(Val(st.remaining_at_sync),
                                   Val(st.last_sync_epoch), Val(s_per), t))

api_status(st) ==
    LET s_per == seconds_per_person(st)
    IN  [as_of_utc |-> st.as_of_utc,
         p0 |-> P0,
         cumulative_deaths |-> st.cumulative_deaths,
         rolling_14d_avg_daily |-> st.r14_daily,
         rolling_14d_prev_daily |-> st.r14_prev,
         trend |-> st.trend,
         remaining_at_sync |-> st.remaining_at_sync,
         last_sync_epoch |-> st.last_sync_epoch,
         seconds_per_person |->
             IF IsNone(s_per) THEN None ELSE Some(Trunc(Val(s_per))),
         last_report_cutoff_epoch |-> st.last_report_cutoff_epoch]

\* ------------------------------------------------------- client-side view
\* Math.round: nearest integer, ties upwards
JsRound(q) == (2 * q.n + q.d) \div (2 * q.d)

\* loadStatus: the three page variables set from a /api/status.json body j
loadStatus(j) ==
    LET r14 == IF IsNone(j.rolling_14d_avg_daily) THEN 0
               ELSE Val(j.rolling_14d_avg_daily)
    IN  [baseline |-> j.remaining_at_sync,
         lastSync |-> j.last_sync_epoch,
         secsPer  |->
            IF ~IsNone(j.seconds_per_person) /\ Val(j.seconds_per_person) > 0
            THEN j.seconds_per_person
            ELSE IF r14 > 0
                 THEN Some(Max(1, JsRound(Norm(Rat(100 * SECONDS_PER_DAY, r14)))))
                 ELSE None]

computeNowInt(c, t) ==
    IF IsNone(c.baseline) \/ IsNone(c.lastSync) \/ IsNone(c.secsPer)
    THEN None
    ELSE IF Val(c.secsPer) <= 0 THEN None
    ELSE LET elapsed == RSub(t, Val(c.lastSync))
             drops   == FloorQuot(elapsed, OfInt(Val(c.secsPer)))
         IN  Some(Max(0, Val(c.baseline) - drops))

\* ------------------------------------------------------------ variables
\* state: the process-wide dict; clock: time.time(); ticks: clock advances so
\* far; last: the latest sync attempt (its outcome, what it fetched, the store
\* before it and what the store before it had been built from); pubData: what
\* the published snapshot was built from; reads: the latest value returned by
\* compute_remaining_now and whether every sync since fetched the same data.
\* When the sync thread and a request thread interleave: wpc is the number of
\* fields of `state` the running sync has assigned (0: no sync is writing) and
\* w what it is writing; rpc is the position of the running
\* compute_remaining_now call, r its locals, rsnaps the snapshots that were
\* current at some moment of the call.
\* When the process is followed from its start: main is the position of the
\* main thread, loop the position of the cron_sync_loop thread, wake the
\* clock value at which its sleep ends, att the record of the sync attempts
\* made so far, status the latest body returned by api_status.
\* When one function is applied to a sample: series is the `killed` column
\* of the dataset served, avg the value rolling_avg returned for it.
VARIABLES state, clock, ticks, last, pubData, reads, wpc, w, rpc, r, rsnaps,
          main, loop, wake, att, status, series, avg

vars == <<state, clock, ticks, last, pubData, reads, wpc, w, rpc, r, rsnaps,
          main, loop, wake, att, status, series, avg>>
threads == <<wpc, w, rpc, r, rsnaps>>
process == <<main, loop, wake, att, status>>
sample == <<series, avg>>

\* ------------------------------------------------------ the remote dataset
\* The CSV bodies the remote URL may serve, by name
Rows(name) ==
    CASE name = "d70"     -> << Row(DateCell(0), IntCell(70), IntCell(1000)) >>
      [] name = "frac"    -> << Row(DateCell(0), IntCell(1), IntCell(998)),
                                Row(DateCell(0), IntCell(1), IntCell(999)),
                                Row(DateCell(0), IntCell(2), IntCell(1000)) >>
      [] name = "zero"    -> << Row(DateCell(0), NoCell, IntCell(1000)) >>
      [] name = "near"    -> << Row(DateCell(0), IntCell(70), IntCell(P0 - 1)) >>
      [] name = "over"    -> << Row(DateCell(0), Cell("empty", 0), IntCell(P0 + 5)) >>
      [] name = "empty"   -> << >>
      [] name = "nocum"   -> << Row(DateCell(0), IntCell(70), IntCell(1000)),
                                Row(DateCell(0), IntCell(70), Cell("junk", 0)) >>
      [] name = "baddate" -> << Row(Cell("junk", 0), IntCell(70), IntCell(1000)) >>

Datasets == {"d70", "frac", "zero", "near", "over", "empty", "nocum", "baddate"}

\* What one call of fetch_csv_rows returns: the rows served, or None when the
\* request raises ("neterr")
Fetches == Datasets \cup {"neterr"}

\* The dataset whose `killed` column is the sample `series`: one row per cell
SeriesRows(cells) ==
    [i \in 1..Len(cells) |-> Row(DateCell(0), cells[i], IntCell(1000))]

fetch_csv_rows(f) ==
    IF f = "neterr" THEN None
    ELSE IF f = "series" THEN Some(SeriesRows(series))
    ELSE Some(Rows(f))

\* Wall-clock values: the process starts one hour before the cutoff of day 0
StartTimes == {SECONDS_PER_DAY - 3600}
TickSizes == {600, 3600, 64800}

\* Read times the properties are evaluated at, as offsets from a cutoff
ProbeOffsets == {-3600, 0, 600, 1234, 1235, 3600, 61200, 64800, 64900,
                 129600}

NoWrite == [f |-> "", pre |-> NoState, new |-> NoState]
NoRead == [t |-> 0, s_per |-> None, elapsed |-> Rat(0, 1), res |-> None]
\* no sync attempt made yet: n attempts begun, `running` of them executing,
\* the latest begun at `begin`, ended at `end`, the one before it at `prevEnd`
NoAttempts == [n |-> 0, running |-> 0, begin |-> 0, end |-> None,
               prevEnd |-> None]

\* everything but the sample: the process has not run anything yet
Boot ==
    /\ state = NoState
    /\ clock \in StartTimes
    /\ ticks = 0
    /\ last = [outcome |-> "none", data |-> "", pre |-> NoState,
               preData |-> ""]
    /\ pubData = ""
    /\ reads = [cur |-> None, clean |-> FALSE]
    /\ wpc = 0
    /\ w = NoWrite
    /\ rpc = "idle"
    /\ r = NoRead
    /\ rsnaps = {}
    /\ main = "boot"
    /\ loop = "unstarted"
    /\ wake = 0
    /\ att = NoAttempts
    /\ status = None
    /\ avg = None

Init == Boot /\ series = << >>

\* the wall clock advances
Tick(d) ==
    /\ ticks < MaxTicks
    /\ clock' = clock + d
    /\ ticks' = ticks + 1
    /\ UNCHANGED <<state, last, pubData, reads, threads,
                   process, sample>>

\* run_sync_once stamping as_of_utc before the dataset is validated
RunSyncOnce_StampsFirst(f) ==
    LET res == SyncResult(fetch_csv_rows(f), clock)
    IN  /\ state' = IF res.ok THEN res.new
                    ELSE [state EXCEPT !.as_of_utc = Some(clock)]
        /\ last' = [outcome |-> IF res.ok THEN "ok" ELSE "failed",
                    data |-> f, pre |-> state, preData |-> pubData]
        /\ pubData' = IF res.ok THEN f ELSE pubData
        /\ reads' = [reads EXCEPT !.clean = reads.clean /\ (~res.ok \/ f = pubData)]
        /\ UNCHANGED <<clock, ticks, threads,
                       process, sample>>

\* run_sync_once emptying the store when the attempt fails
run_sync_once_ClearsOnFailure(f) ==
    LET res == SyncResult(fetch_csv_rows(f), clock)
    IN  /\ state' = IF res.ok THEN res.new ELSE NoState
        /\ last' = [outcome |-> IF res.ok THEN "ok" ELSE "failed",
                    data |-> f, pre |-> state, preData |-> pubData]
        /\ pubData' = IF res.ok THEN f ELSE pubData
        /\ reads' = [reads EXCEPT !.clean = reads.clean /\ (~res.ok \/ f = pubData)]

\* what one call of run_sync_once does to the store and to the history, on
\* what the fetch returns
run_sync_once(f) ==
    LET res == SyncResult(fetch_csv_rows(f), clock)
    IN  /\ state' = IF res.ok THEN res.new ELSE state
        /\ last' = [outcome |-> IF res.ok THEN "ok" ELSE "failed",
                    data |-> f, pre |-> state, preData |-> pubData]
        /\ pubData' = IF res.ok THEN f ELSE pubData
        /\ reads' = [reads EXCEPT !.clean = reads.clean /\ (~res.ok \/ f = pubData)]

\* run_sync_once, run without interleaving
RunSyncOnce(f) ==
    /\ run_sync_once(f)
    /\ UNCHANGED <<clock, ticks, threads, process, sample>>

\* a request handler calls compute_remaining_now() at the current time
Read ==
    /\ reads' = [cur |-> compute_remaining_now(state, OfInt(clock)),
                 clean |-> TRUE]
    /\ UNCHANGED <<state, clock, ticks, last, pubData, threads,
                   process, sample>>

Next ==
    \/ \E d \in TickSizes : Tick(d)
    \/ \E f \in Fetches : RunSyncOnce(f)
    \/ Read

Spec == Init /\ [][Next]_vars

\* ------------------------------------------- the two threads, interleaved
\* The fields of `state` in the order run_sync_once assigns them
FieldOrder ==
    << "as_of_utc", "cumulative_deaths", "remaining_at_sync", "r14_daily",
       "r14_prev", "trend", "last_sync_epoch", "last_report_cutoff_epoch" >>

ConcFetches == {"d70", "zero", "neterr"}

\* run_sync_once up to line 112: fetch, reduce, align; an exception ends the
\* attempt in the handler of line 125
SyncBegin(f) ==
    LET res == SyncResult(fetch_csv_rows(f), clock)
    IN  /\ wpc = 0
        /\ IF res.ok
           THEN /\ wpc' = 1
                /\ w' = [f |-> f, pre |-> state, new |-> res.new]
                /\ rsnaps' = IF rpc = "idle" THEN rsnaps
                             ELSE rsnaps \cup {res.new}
                /\ UNCHANGED last
           ELSE /\ last' = [outcome |-> "failed", data |-> f, pre |-> state,
                            preData |-> pubData]
                /\ UNCHANGED <<wpc, w, rsnaps>>
        /\ UNCHANGED <<state, clock, ticks, pubData, reads, rpc, r,
                       process, sample>>

\* one of the assignments of lines 114-121; the last one ends the attempt
SyncWrite ==
    /\ wpc \in 1..Len(FieldOrder)
    /\ state' = [state EXCEPT ![FieldOrder[wpc]] = w.new[FieldOrder[wpc]]]
    /\ IF wpc < Len(FieldOrder)
       THEN /\ wpc' = wpc + 1
            /\ UNCHANGED <<w, last, pubData>>
       ELSE /\ wpc' = 0
            /\ w' = NoWrite
            /\ last' = [outcome |-> "ok", data |-> w.f, pre |-> w.pre,
                        preData |-> pubData]
            /\ pubData' = w.f
    /\ UNCHANGED <<clock, ticks, reads, rpc, r, rsnaps,
                   process, sample>>

\* compute_remaining_now, line 139, first operand
ReadCheckBaseline ==
    /\ rpc = "idle"
    /\ rsnaps' = IF wpc = 0 THEN {state} ELSE {w.pre, w.new}
    /\ IF IsNone(state.remaining_at_sync)
       THEN rpc' = "done" /\ r' = [NoRead EXCEPT !.res = None]
       ELSE rpc' = "check_anchor" /\ r' = NoRead
    /\ UNCHANGED <<state, clock, ticks, last, pubData, reads, wpc, w,
                   process, sample>>

\* line 139, second operand, and lines 141-142
ReadCheckAnchor ==
    /\ rpc = "check_anchor"
    /\ IF IsNone(state.last_sync_epoch)
       THEN rpc' = "done" /\ r' = [r EXCEPT !.res = None]
       ELSE rpc' = "rate" /\ r' = [r EXCEPT !.t = clock]
    /\ UNCHANGED <<state, clock, ticks, last, pubData, reads, wpc, w, rsnaps,
                   process, sample>>

\* line 143: seconds_per_person reads r14_daily
ReadRate ==
    /\ rpc = "rate"
    /\ r' = [r EXCEPT !.s_per = seconds_per_person(state)]
    /\ rpc' = IF IsNone(seconds_per_person(state)) THEN "frozen" ELSE "anchor"
    /\ UNCHANGED <<state, clock, ticks, last, pubData, reads, wpc, w, rsnaps,
                   process, sample>>

\* line 145
ReadFrozen ==
    /\ rpc = "frozen"
    /\ r' = [r EXCEPT !.res = Some(Val(state.remaining_at_sync))]
    /\ rpc' = "done"
    /\ UNCHANGED <<state, clock, ticks, last, pubData, reads, wpc, w, rsnaps,
                   process, sample>>

\* line 146: reads last_sync_epoch
ReadAnchor ==
    /\ rpc = "anchor"
    /\ r' = [r EXCEPT !.elapsed = RSub(OfInt(r.t), Val(state.last_sync_epoch))]
    /\ rpc' = "baseline"
    /\ UNCHANGED <<state, clock, ticks, last, pubData, reads, wpc, w, rsnaps,
                   process, sample>>

\* line 147: reads remaining_at_sync
ReadBaseline ==
    /\ rpc = "baseline"
    /\ r' = [r EXCEPT !.res =
                Some(Max(0, Val(state.remaining_at_sync)
                              - FloorQuot(r.elapsed, Val(r.s_per))))]
    /\ rpc' = "done"
    /\ UNCHANGED <<state, clock, ticks, last, pubData, reads, wpc, w, rsnaps,
                   process, sample>>

\* the call returns r.res
ReadReturn ==
    /\ rpc = "done"
    /\ rpc' = "idle"
    /\ r' = NoRead
    /\ rsnaps' = {}
    /\ UNCHANGED <<state, clock, ticks, last, pubData, reads, wpc, w,
                   process, sample>>

\* the assignments of a sync and the steps of a read take no wall-clock time
TickQuiet(d) == wpc = 0 /\ rpc = "idle" /\ Tick(d)

NextConc ==
    \/ \E d \in TickSizes : TickQuiet(d)
    \/ \E f \in ConcFetches : SyncBegin(f)
    \/ SyncWrite
    \/ ReadCheckBaseline
    \/ ReadCheckAnchor
    \/ ReadRate
    \/ ReadFrozen
    \/ ReadAnchor
    \/ ReadBaseline
    \/ ReadReturn

SpecConc == Init /\ [][NextConc]_vars

\* ------------------------------------------ the process, from its start
MaxAttempts == 3
CronFetches == {"d70", "neterr", "empty"}
CadenceSeconds == SYNC_INTERVAL_HOURS * 3600

\* the class of the exception the try block raises on what was fetched
\* ("none": the block completes)
Raised(fetched) ==
    IF IsNone(fetched) THEN "URLError"
    ELSE IF SyncResult(fetched, 0).ok THEN "none" ELSE "ValueError"

\* an except clause that lets the errors of the fetch through
Caught_ValueErrorOnly(exc) == exc = "ValueError"

\* line 125: `except Exception` handles every class the block raises
Caught(exc) == exc \in {"URLError", "ValueError"}

\* the call of run_sync_once on fetch f ends with an exception
Escapes(f) ==
    LET exc == Raised(fetch_csv_rows(f))
    IN  exc # "none" /\ ~Caught(exc)

BeginAttempt ==
    [n |-> att.n + 1, running |-> att.running + 1, begin |-> clock,
     end |-> None, prevEnd |-> att.end]
EndAttempt == [att EXCEPT !.running = @ - 1, !.end = Some(clock)]

\* lines 572, 566: the main thread enters run_sync_once
EagerBegin ==
    /\ main = "boot"
    /\ main' = "eager"
    /\ att' = BeginAttempt
    /\ UNCHANGED <<state, clock, ticks, last, pubData, reads, threads,
                   loop, wake, status, sample>>

\* line 566: that call ends
EagerEnd(f) ==
    /\ main = "eager"
    /\ run_sync_once(f)
    /\ main' = IF Escapes(f) THEN "dead" ELSE "spawn"
    /\ att' = EndAttempt
    /\ UNCHANGED <<clock, ticks, threads, loop, wake, status, sample>>

\* lines 567-568 and 573: the thread of cron_sync_loop is started and enters
\* the sleep of line 130; the main thread goes on to serve requests
StartThread ==
    /\ main = "spawn"
    /\ main' = "serving"
    /\ loop' = "sleeping"
    /\ wake' = clock + CadenceSeconds
    /\ UNCHANGED <<state, clock, ticks, last, pubData, reads, threads,
                   att, status, sample>>

\* the fetch of a running attempt takes up to its timeout
AttemptTakesTime ==
    /\ main = "eager" \/ loop = "syncing"
    /\ clock = att.begin
    /\ clock' = clock + FETCH_TIMEOUT
    /\ UNCHANGED <<state, ticks, last, pubData, reads, threads,
                   process, sample>>

\* half of the sleep of line 130 goes by
SleepPasses ==
    /\ loop = "sleeping"
    /\ clock + CadenceSeconds \div 2 <= wake
    /\ clock' = clock + CadenceSeconds \div 2
    /\ UNCHANGED <<state, ticks, last, pubData, reads, threads,
                   process, sample>>

\* cron_sync_loop calling run_sync_once without having slept
LoopWake_NoSleep ==
    /\ loop = "sleeping"
    /\ att.n < MaxAttempts
    /\ loop' = "syncing"
    /\ att' = BeginAttempt
    /\ UNCHANGED <<state, clock, ticks, last, pubData, reads, threads,
                   main, wake, status, sample>>

\* lines 130-131: the sleep is over, the loop enters run_sync_once
LoopWake ==
    /\ loop = "sleeping"
    /\ clock >= wake
    /\ att.n < MaxAttempts
    /\ loop' = "syncing"
    /\ att' = BeginAttempt
    /\ UNCHANGED <<state, clock, ticks, last, pubData, reads, threads,
                   main, wake, status, sample>>

\* lines 131, 129-130: that call ends and the loop sleeps again
LoopSyncEnd(f) ==
    /\ loop = "syncing"
    /\ run_sync_once(f)
    /\ loop' = IF Escapes(f) THEN "dead" ELSE "sleeping"
    /\ wake' = clock + CadenceSeconds
    /\ att' = EndAttempt
    /\ UNCHANGED <<clock, ticks, threads, main, status, sample>>

\* a request handler calls compute_remaining_now (line 323)
ServeValue == main = "serving" /\ Read

\* api_status storing the defaults it falls back on
ServeStatus_StoresDefaults ==
    /\ main = "serving"
    /\ status' = Some(api_status(state))
    /\ state' = IF IsNone(state.r14_daily)
                THEN [state EXCEPT !.r14_daily = Some(0)] ELSE state
    /\ UNCHANGED <<clock, ticks, last, pubData, reads, threads,
                   main, loop, wake, att, sample>>

\* GET /api/status.json
ServeStatus ==
    /\ main = "serving"
    /\ status' = Some(api_status(state))
    /\ UNCHANGED <<state, clock, ticks, last, pubData, reads, threads,
                   main, loop, wake, att, sample>>

NextCron ==
    \/ EagerBegin
    \/ \E f \in CronFetches : EagerEnd(f)
    \/ StartThread
    \/ AttemptTakesTime
    \/ SleepPasses
    \/ LoopWake
    \/ \E f \in CronFetches : LoopSyncEnd(f)
    \/ ServeValue
    \/ ServeStatus

SpecCron == Init /\ [][NextCron]_vars

\* Threads that can run do run, a sleep ends, and a fetch returns or raises
\* within its timeout
SpecCronFair ==
    /\ SpecCron
    /\ WF_vars(EagerBegin)
    /\ WF_vars(\E f \in CronFetches : EagerEnd(f))
    /\ WF_vars(StartThread)
    /\ WF_vars(SleepPasses)
    /\ WF_vars(LoopWake)
    /\ WF_vars(\E f \in CronFetches : LoopSyncEnd(f))

\* ------------------------------------------- one function, many datasets
\* The `killed` columns tried: up to three runs of equal cells
MaxRun == 9
SampleCells == {NoCell, IntCell(-2), IntCell(0), IntCell(1)}
Rep(c, k) == [i \in 1..k |-> c]
Samples ==
    {Rep(a, i) \o Rep(b, j) \o Rep(c, k) :
        a \in SampleCells, b \in SampleCells, c \in SampleCells,
        i \in 0..MaxRun, j \in 0..MaxRun, k \in 0..MaxRun}

InitSeries == Boot /\ series \in Samples

\* `daily` as parse_rows returns it for the sample
SeriesDaily == parse_rows(SeriesRows(series)).daily

\* line 96: R14 = rolling_avg(daily, 14)
ApplyRollingAvg ==
    /\ avg' = Some(rolling_avg(SeriesDaily, ROLLING_N))
    /\ UNCHANGED <<state, clock, ticks, last, pubData, reads, threads,
                   process, series>>

NextSeries ==
    \/ ApplyRollingAvg
    \/ RunSyncOnce("series")

SpecSeries == InitSeries /\ [][NextSeries]_vars

\* ================================================================ properties
Published(st) == ~IsNone(st.remaining_at_sync) /\ ~IsNone(st.last_sync_epoch)

\* the read times tried: the probe offsets around the cutoff of day 0, the
\* current time, and the anchor of the published snapshot
ProbeTimes ==
    {OfInt(SECONDS_PER_DAY + o) : o \in ProbeOffsets} \cup {OfInt(clock)}
      \cup (IF IsNone(state.last_sync_epoch) THEN {}
            ELSE {Val(state.last_sync_epoch)})

\* what the sync that published the current snapshot computed
PubSync == SyncResult(fetch_csv_rows(pubData), Val(state.as_of_utc))
PubRate == PubSync.R14
PubCutoff == Val(state.last_report_cutoff_epoch)
PubCum == Val(state.cumulative_deaths)
PubNow == Val(state.as_of_utc)
SyncedNow == last.outcome = "ok"
PreNow == Val(last.pre.as_of_utc)

\* floor((t - C) / (86400 / R)) for a rational time t
WholeIntervals(t, C, R) ==
    FloorQuot(RSub(t, OfInt(C)), Norm(Rat(SECONDS_PER_DAY * R.d, R.n)))

\* C2: a sync attempt that fails (the fetch raises, no rows, no final
\* cumulative value, unparsable last date) leaves every field of the store as
\* it was, and so every value compute_remaining_now returns and the status.
C2_FailedSyncIsNoOp ==
    last.outcome = "failed" =>
        /\ state = last.pre
        /\ api_status(state) = api_status(last.pre)
        /\ \A t \in ProbeTimes :
              compute_remaining_now(state, t) = compute_remaining_now(last.pre, t)

C2_Witness ==
    /\ last.outcome = "failed"
    /\ last.data \in {"empty", "nocum", "baddate", "neterr"}
    /\ Published(last.pre)

\* C3 (as claimed): for a snapshot published with cutoff C, positive rate R
\* and cumulative D, every read at t >= C returns
\* max(0, P0 - D - floor((t - C) / (86400 / R))).
C3_Alignment ==
    (Published(state) /\ RPos(PubRate)) =>
        \A t \in ProbeTimes :
            RLeq(OfInt(PubCutoff), t) =>
                compute_remaining_now(state, t) =
                    Some(Max(0, P0 - PubCum - WholeIntervals(t, PubCutoff, PubRate)))

\* C6: for a fixed snapshot with a positive rate the value is non-increasing
\* in t; with a zero or undefined rate it is the same for every t.
C6_Monotone ==
    LET v == [t \in ProbeTimes |-> compute_remaining_now(state, t)]
    IN  \A t1, t2 \in ProbeTimes :
            RLeq(t1, t2) =>
                IF Published(state) /\ ~IsNone(seconds_per_person(state))
                THEN Val(v[t1]) >= Val(v[t2])
                ELSE v[t1] = v[t2]

C6_Witness ==
    /\ Published(state)
    /\ ~IsNone(seconds_per_person(state))
    /\ \E t1, t2 \in ProbeTimes :
          /\ RLt(t1, t2)
          /\ Val(compute_remaining_now(state, t1))
                > Val(compute_remaining_now(state, t2))

\* C7: the value at the anchor of a published snapshot is its baseline.
C7_ValueAtAnchor ==
    Published(state) =>
        compute_remaining_now(state, Val(state.last_sync_epoch))
            = state.remaining_at_sync

C7_Witness ==
    /\ Published(state)
    /\ ~IsNone(seconds_per_person(state))
    /\ Val(state.last_sync_epoch) # OfInt(PubNow)
    /\ Val(state.remaining_at_sync) > 0
    /\ Val(state.remaining_at_sync) < P0 - PubCum

\* C4 (as claimed): with an unchanged dataset, a successful sync leaves the
\* value read at that instant as it was, and over reads at non-decreasing
\* times the value returned never increases.
C4_NoJump ==
    (SyncedNow /\ Published(last.pre) /\ last.data = last.preData) =>
        compute_remaining_now(state, OfInt(PubNow))
            = compute_remaining_now(last.pre, OfInt(PubNow))

C4_ReadsNeverIncrease ==
    (reads.clean /\ reads'.clean /\ ~IsNone(reads.cur) /\ ~IsNone(reads'.cur))
        => Val(reads'.cur) <= Val(reads.cur)

C4_NoJumpNoDoubleCount == [](C4_NoJump) /\ [][C4_ReadsNeverIncrease]_vars

\* C5 (as claimed): the page's computeNowInt on the fields of
\* /api/status.json returns what compute_remaining_now returns, at every time.
C5_ClientEqualsServer ==
    Published(state) =>
        \A t \in ProbeTimes :
            computeNowInt(loadStatus(api_status(state)), t)
                = compute_remaining_now(state, t)

\* C8 (as claimed): after a sync on the dataset with last date 2024-01-10,
\* cumulative 1000 and average 70/day, the value at the cutoff is P0 - 1000
\* and the value 3600 s later is P0 - 1003.
ScenarioCutoff == SECONDS_PER_DAY
C9_FrozenAtCeilingMinusCum ==
    (Published(state) /\ ~RPos(PubRate)) =>
        /\ PubSync.extra = 0
        /\ state.last_sync_epoch = Some(OfInt(PubNow))
        /\ \A t \in ProbeTimes :
              compute_remaining_now(state, t) = Some(P0 - PubCum)

\* C9 (amended): ... and reads max(0, P0 - cumulative) at every time.
C9_FrozenAtClampedBaseline ==
    (Published(state) /\ ~RPos(PubRate)) =>
        /\ PubSync.extra = 0
        /\ state.last_sync_epoch = Some(OfInt(PubNow))
        /\ \A t \in ProbeTimes :
              compute_remaining_now(state, t) = Some(Max(0, P0 - PubCum))

C9_Witness ==
    /\ Published(state)
    /\ ~RPos(PubRate)
    /\ PubNow > PubCutoff
    /\ clock > PubNow
    /\ last.outcome = "failed"

\* C10: two successful syncs on the same dataset, less than one decrement
\* interval apart, publish the same cumulative and the same rate, and
\* baselines that differ by at most 1.
Immediate ==
    RPos(PubRate) =>
        RLt(OfInt(PubNow - PreNow), Rat(SECONDS_PER_DAY * PubRate.d, PubRate.n))

C10_Idempotent ==
    (SyncedNow /\ Published(last.pre) /\ last.data = last.preData /\ Immediate)
        => /\ state.cumulative_deaths = last.pre.cumulative_deaths
           /\ state.r14_daily = last.pre.r14_daily
           /\ Abs(Val(state.remaining_at_sync)
                    - Val(last.pre.remaining_at_sync)) <= 1

C10_Witness ==
    /\ SyncedNow /\ Published(last.pre) /\ last.data = last.preData
    /\ RPos(PubRate)
    /\ Immediate
    /\ PubNow > PreNow
    /\ Val(state.remaining_at_sync) = Val(last.pre.remaining_at_sync) - 1

\* C1 (as claimed): a read that runs while a sync publishes uses fields that
\* all come from one sync, so it returns what one of the snapshots current
\* during the call gives at its time t.
C1_ReadsOneSnapshot ==
    rpc = "done" =>
        \E S \in rsnaps : r.res = compute_remaining_now(S, OfInt(r.t))

\* the last n present values of vals, found walking back from its end
RECURSIVE LastPresent(_, _)
LastPresent(vals, n) ==
    IF n = 0 \/ vals = << >> THEN << >>
    ELSE LET h    == vals[Len(vals)]
             rest == SubSeq(vals, 1, Len(vals) - 1)
         IN  IF IsNone(h) THEN LastPresent(rest, n)
             ELSE Append(LastPresent(rest, n - 1), Val(h))

\* C13: the rolling average of a daily series with at least one present value
\* is at least the smallest and at most the largest of the last 14 present
\* values; with no present value it is 0.0.
C13_AverageWithinWindow ==
    ~IsNone(avg) =>
        LET win == LastPresent(SeriesDaily, ROLLING_N)
            a   == Val(avg)
        IN  IF win = << >> THEN a = Rat(0, 1)
            ELSE /\ a.d > 0
                 /\ \E i \in 1..Len(win) : win[i] * a.d <= a.n
                 /\ \E j \in 1..Len(win) : a.n <= win[j] * a.d

C13_Witness ==
    /\ ~IsNone(avg)
    /\ Len(Present(SeriesDaily)) > ROLLING_N
    /\ Len(Present(SeriesDaily)) < Len(series)
    /\ LET win == LastPresent(SeriesDaily, ROLLING_N)
           a   == Val(avg)
       IN  /\ \E i \in 1..Len(win) : win[i] * a.d < a.n
           /\ \E j \in 1..Len(win) : a.n < win[j] * a.d
           /\ \E i \in 1..Len(win) : win[i] < 0

\* C11 (as claimed): every published snapshot has r14_daily >= 0,
\* r14_prev >= 0 and 0 <= remaining_at_sync <= P0 - cumulative_deaths,
\* whatever dataset the reducer accepted and whenever the sync ran.
C11_SnapshotInvariants ==
    Published(state) =>
        /\ Val(state.r14_daily) >= 0
        /\ Val(state.r14_prev) >= 0
        /\ 0 <= Val(state.remaining_at_sync)
        /\ Val(state.remaining_at_sync) <= P0 - Val(state.cumulative_deaths)

\* the mean of the present values of vals at offsets a..b from the end
WindowMean(vals, a, b) ==
    LET back == LastPresent(vals, a)
        win  == SubSeq(back, 1, Len(back) - Len(LastPresent(vals, b)))
    IN  IF win = << >> THEN Rat(0, 1) ELSE Rat(Sum(win), Len(win))

\* C18 (as claimed): in every published snapshot the trend is "up" exactly
\* when r14_daily > r14_prev, "down" exactly when r14_daily < r14_prev and
\* "flat" exactly when they are equal, r14_daily being the average of the
\* last 14 present daily values and r14_prev the average of the present
\* values at offsets 28..14 from the end (0.0 when there are none).
C18_TrendAgreesWithPublishedRates ==
    (Published(state) /\ pubData = "series") =>
        /\ state.trend = "up" <=> Val(state.r14_daily) > Val(state.r14_prev)
        /\ state.trend = "down" <=> Val(state.r14_daily) < Val(state.r14_prev)
        /\ state.trend = "flat" <=> Val(state.r14_daily) = Val(state.r14_prev)
        /\ Val(state.r14_daily)
              = Round2(WindowMean(SeriesDaily, ROLLING_N, 0))
        /\ Val(state.r14_prev)
              = Round2(WindowMean(SeriesDaily, 2 * ROLLING_N, ROLLING_N))

\* the decrement interval the sync that published the snapshot worked with
PubSecsPer == Norm(Rat(SECONDS_PER_DAY * PubRate.d, PubRate.n))
PubAnchor == Val(state.last_sync_epoch)
REq(p, q) == p.n * q.d = q.n * p.d
\* x mod s with values in [0, s), for rationals x and s > 0
MathMod(x, s) ==
    LET k == FloorQuot(x, s)
    IN  RSub(x, Rat(k * s.n, s.d))
\* p is a whole multiple of s
WholeMultiple(p, s) == (p.n * s.d) % (p.d * s.n) = 0

\* C15 (as claimed): a snapshot published with a positive rate has its
\* anchor at now - ((now - cutoff) mod s), s the decrement interval and mod
\* taking values in [0, s): the anchor is at most now, less than s before
\* it, and a whole number of intervals away from the cutoff, also when the
\* cutoff is later than now.
C15_AnchorAligned ==
    (Published(state) /\ RPos(PubRate)) =>
        /\ REq(PubAnchor,
               RSub(OfInt(PubNow),
                    MathMod(OfInt(PubNow - PubCutoff), PubSecsPer)))
        /\ RLeq(PubAnchor, OfInt(PubNow))
        /\ RLt(RSub(OfInt(PubNow), PubAnchor), PubSecsPer)
        /\ WholeMultiple(RSub(PubAnchor, OfInt(PubCutoff)), PubSecsPer)

\* C16: a snapshot published with a positive rate has
\* remaining_at_sync = max(0, P0 - (cumulative + extra)) where extra is
\* floor((now - cutoff) / s) raised to 0 when negative; when the cutoff is
\* later than now, extra is 0.
C16_BaselineFromExtra ==
    (Published(state) /\ RPos(PubRate)) =>
        LET k     == WholeIntervals(OfInt(PubNow), PubCutoff, PubRate)
            extra == Max(0, k)
        IN  /\ PubSync.extra = extra
            /\ state.remaining_at_sync = Some(Max(0, P0 - (PubCum + extra)))
            /\ PubCutoff > PubNow =>
                  /\ extra = 0
                  /\ state.remaining_at_sync = Some(Max(0, P0 - PubCum))

C16_Witness ==
    /\ SyncedNow
    /\ Published(state) /\ RPos(PubRate)
    /\ PubSync.extra > 0
    /\ Val(state.remaining_at_sync) = P0 - (PubCum + PubSync.extra)
    /\ Published(last.pre)
    /\ Val(last.pre.r14_daily) > 0
    /\ Val(last.pre.last_report_cutoff_epoch) > PreNow
    /\ Val(last.pre.remaining_at_sync)
          = P0 - Val(last.pre.cumulative_deaths)

\* C19 (as claimed): for a published snapshot and a time t earlier than its
\* anchor, compute_remaining_now(t) is an integer, at least 0 and at most
\* remaining_at_sync.
C19_PastReadsWithinBaseline ==
    Published(state) =>
        \A t \in ProbeTimes :
            RLt(t, PubAnchor) =>
                LET v == compute_remaining_now(state, t)
                IN  /\ ~IsNone(v)
                    /\ Val(v) \in Int
                    /\ Val(v) >= 0
                    /\ Val(v) <= Val(state.remaining_at_sync)

\* C20 (as claimed): the interval seconds_per_person derives from the stored
\* r14_daily is the interval the sync used for extra and the anchor, and
\* seconds_per_person gives None exactly when the sync took the branch
\* without a positive rate.
C20_ReaderIntervalIsSyncInterval ==
    Published(state) =>
        /\ IsNone(seconds_per_person(state)) <=> ~RPos(PubRate)
        /\ RPos(PubRate) =>
              /\ ~IsNone(seconds_per_person(state))
              /\ REq(Val(seconds_per_person(state)), PubSecsPer)

\* C12: a sync attempt that fails (the fetch raises, the dataset is rejected)
\* ends neither the thread that ran it nor the process, and when it was not
\* the last attempt followed, the next attempt begins later, a full cadence
\* after it ended.
C12_FailureContained ==
    /\ [](main # "dead" /\ loop # "dead")
    /\ \A k \in 1..(MaxAttempts - 1) :
          (att.n = k /\ att.running = 0 /\ last.outcome = "failed")
            ~> (/\ att.n = k + 1
                /\ att.begin >= Val(att.prevEnd) + CadenceSeconds)

C12_Witness ==
    /\ att.n = MaxAttempts
    /\ att.running = 1
    /\ last.outcome = "failed"
    /\ last.data = "neterr"
    /\ loop = "syncing"
    /\ main = "serving"
    /\ state = NoState

\* C17: at most one sync attempt runs at a time; the cron_sync_loop thread
\* exists only once the attempt of the process start has ended; every
\* attempt after the first begins at least 24 h after the attempt before it
\* ended, whether that one failed or not.
C17_SequentialCadence ==
    /\ att.running <= 1
    /\ loop # "unstarted" =>
          /\ att.n >= 1
          /\ att.n = 1 => ~IsNone(att.end)
    /\ att.n >= 2 =>
          /\ ~IsNone(att.prevEnd)
          /\ att.begin >= Val(att.prevEnd) + SYNC_INTERVAL_HOURS * 3600

C17_Witness ==
    /\ att.n = 3
    /\ att.running = 1
    /\ last.outcome = "failed"
    /\ Published(state)
    /\ att.begin = Val(att.prevEnd) + SYNC_INTERVAL_HOURS * 3600

\* C14: a step in which api_status or compute_remaining_now returns leaves
\* every field of the store as it was, also when nothing was published yet;
\* a step that changes the store is the end of a sync attempt.
C14_ReadersLeaveStore ==
    [][/\ (status' # status \/ reads'.cur # reads.cur \/ ServeStatus
            \/ ServeValue) => state' = state
       /\ state' # state =>
            /\ att.running = 1
            /\ att'.running = 0]_vars

C14_Witness ==
    /\ ~IsNone(status)
    /\ Val(status).remaining_at_sync = None
    /\ reads.clean
    /\ IsNone(reads.cur)
    /\ state = NoState
    /\ last.outcome = "failed"

\* some sync attempt has succeeded
Succeeded == pubData # ""

====
